---- MODULE Spec2Model ----
(***************************************************************************)
(* Asynchronous job engine of slide-beautifier: the work store (batches /  *)
(* batch_items, pptx_jobs / pptx_slides), the supervisor maps              *)
(* (activeBatches / activeJobs), the two processors (processBatch,         *)
(* processPptxJob) and the create / retry / cancel request handlers.       *)
(*                                                                         *)
(* Node runs every handler and every processor segment between two awaits  *)
(* to completion, so one action is one such segment.  A processor is       *)
(* suspended at the Gateway call, at the inter-task delay, or (deck jobs)  *)
(* at the assembly call.                                                   *)
(*                                                                         *)
(* Batch jobs and deck jobs live in separate tables with separate id       *)
(* spaces; here both are rows of one table tagged with their kind, which   *)
(* is the same thing up to renaming of ids.                                *)
(***************************************************************************)
EXTENDS Integers, Sequences, FiniteSets, TLC

MaxJobs == 2
MaxTasks == 2
MaxRestarts == 1

JobIds == 1..MaxJobs
TaskIds == 1..MaxTasks
ProcIds == 1..(MaxJobs + MaxRestarts)

NULL == "null"
Kinds == {"batch", "pptx"}
Terminal == {"completed", "failed"}
NoDuration == 0 - 1

COST_PER_IMAGE == 24

\* What the provider does on one generateContent call.
ProviderOutcomes == {"image", "finish_safety"}
\* Date.now() - startTime, in ms.
ElapsedMs == {7}

VARIABLES jobs, tasks, active, procs, pptxResults, nRestarts, retried, lastOp

vars == <<jobs, tasks, active, procs, pptxResults, nRestarts, retried, lastOp>>

\* The program state a segment reads and writes, passed through the calls of
\* one segment.
St == [jobs |-> jobs, tasks |-> tasks, active |-> active, procs |-> procs,
       pptxResults |-> pptxResults]

Commit(s) ==
    /\ jobs' = s.jobs
    /\ tasks' = s.tasks
    /\ active' = s.active
    /\ procs' = s.procs
    /\ pptxResults' = s.pptxResults

IdleProc ==
    [job |-> 0, pc |-> "idle", item |-> 0, retryOf |-> 0, calls |-> 0, images |-> <<>>,
     cancelled |-> FALSE, alone |-> FALSE]

JobExists(s, j) == j \in DOMAIN s.jobs
TaskExists(s, t) == t \in DOMAIN s.tasks
TasksOf(s, j) == {t \in DOMAIN s.tasks : s.tasks[t].job = j}

SetMin(S) == CHOOSE x \in S : \A y \in S : x <= y

----------------------------------------------------------------------------
(* Work store *)

\* Slip: the estimate is the cost of one image whatever the number of items.
createJobRow_flatCost(kind, n) ==
    [kind |-> kind, status |-> "pending", total |-> n, completed |-> 0,
     failed |-> 0, estimated_cost |-> COST_PER_IMAGE, completed_at |-> NULL]

createJobRow(kind, n) ==
    [kind |-> kind, status |-> "pending", total |-> n, completed |-> 0,
     failed |-> 0, estimated_cost |-> n * COST_PER_IMAGE, completed_at |-> NULL]

\* The i-th image of the request (the i-th uploaded file, the i-th slide of the
\* converted deck).
OriginalImage(i) ==
    CASE i = 1 -> "original-1"
      [] i = 2 -> "original-2"
      [] OTHER -> "original-3"

\* The order in which the files of a batch request are listed: by name, or by
\* name backwards.  A filename is modelled by its rank in the lexicographic
\* order of the request's filenames; a slide has none (0).
Orders == {"asc", "desc"}

Filename(kind, n, i, order) ==
    IF kind = "pptx" THEN 0
    ELSE IF order = "asc" THEN i ELSE n + 1 - i

createTaskRow(j, kind, n, i, order) ==
    [job |-> j, slide_number |-> IF kind = "pptx" THEN i ELSE 0,
     filename |-> Filename(kind, n, i, order),
     original_image |-> OriginalImage(i),
     status |-> "pending", output |-> NULL, error |-> NULL, duration |-> NoDuration]

createBatch(s, kind, n, order) ==
    LET j == Len(s.jobs) + 1
    IN [s EXCEPT !.jobs = Append(@, createJobRow(kind, n)),
                 !.tasks = @ \o [i \in 1..n |->
                                    createTaskRow(j, kind, n, i, order)]]

\* Slip: WHERE status != 'completed' instead of status = 'pending'.
getNextPendingBatchItem_notCompleted(s, j) ==
    LET pend == {t \in TasksOf(s, j) : s.tasks[t].status \in {"pending", "failed"}}
    IN IF pend = {} THEN 0 ELSE SetMin(pend)

getNextPendingBatchItem(s, j) ==
    LET pend == {t \in TasksOf(s, j) : s.tasks[t].status = "pending"}
    IN IF pend = {} THEN 0 ELSE SetMin(pend)

getNextPendingPptxSlide(s, j) ==
    LET pend == {t \in TasksOf(s, j) : s.tasks[t].status = "pending"}
    IN IF pend = {} THEN 0
       ELSE CHOOSE t \in pend :
              \A u \in pend : s.tasks[t].slide_number <= s.tasks[u].slide_number

getNextPending(s, j) ==
    IF s.jobs[j].kind = "pptx" THEN getNextPendingPptxSlide(s, j)
    ELSE getNextPendingBatchItem(s, j)

\* Slip: the statement stamps completed_at but never clears it.
updateBatchStatus_neverClears(s, j, status) ==
    IF ~JobExists(s, j) THEN s
    ELSE [s EXCEPT !.jobs[j].status = status,
                   !.jobs[j].completed_at =
                       IF status \in {"completed", "failed"} THEN "stamp" ELSE @]

updateBatchStatus(s, j, status) ==
    IF ~JobExists(s, j) THEN s
    ELSE [s EXCEPT !.jobs[j].status = status,
                   !.jobs[j].completed_at =
                       IF status \in {"completed", "failed"} THEN "stamp" ELSE NULL]

\* value || null, for a string and for a number.  A NULL processing_time is
\* NoDuration.
OrNull(v) == IF v \in {NULL, ""} THEN NULL ELSE v

OrNullNum(n) == IF n = 0 THEN NoDuration ELSE n

\* updateBatchItemStatus called without its result argument.
NoResult == [image |-> NULL, error |-> NULL, processingTime |-> 0]

\* Slip: WHERE batch_id = ? instead of WHERE id = ?.
updateBatchItemStatus_wholeJob(s, t, status, result) ==
    [s EXCEPT !.tasks = [u \in DOMAIN s.tasks |->
        IF s.tasks[u].job = s.tasks[t].job
        THEN [s.tasks[u] EXCEPT !.status = status,
                                !.output = OrNull(result.image),
                                !.error = OrNull(result.error),
                                !.duration = OrNullNum(result.processingTime)]
        ELSE s.tasks[u]]]

updateBatchItemStatus(s, t, status, result) ==
    [s EXCEPT !.tasks[t].status = status,
              !.tasks[t].output = OrNull(result.image),
              !.tasks[t].error = OrNull(result.error),
              !.tasks[t].duration = OrNullNum(result.processingTime)]

\* Slip: a failed task is counted in failed_items only.
incrementBatchCompleted_failedOnly(s, j, failed) ==
    IF failed
    THEN [s EXCEPT !.jobs[j].failed = @ + 1]
    ELSE [s EXCEPT !.jobs[j].completed = @ + 1]

incrementBatchCompleted(s, j, failed) ==
    IF failed
    THEN [s EXCEPT !.jobs[j].completed = @ + 1, !.jobs[j].failed = @ + 1]
    ELSE [s EXCEPT !.jobs[j].completed = @ + 1]

\* Slip: the reset leaves the old error message in place.
resetBatchItem_keepsError(s, t) ==
    [s EXCEPT !.tasks[t].status = "pending",
              !.tasks[t].output = NULL,
              !.tasks[t].duration = NoDuration]

resetBatchItem(s, t) ==
    [s EXCEPT !.tasks[t].status = "pending",
              !.tasks[t].output = NULL,
              !.tasks[t].error = NULL,
              !.tasks[t].duration = NoDuration]

\* Slip: the retry takes the task out of completed_items only.
decrementBatchFailed_completedOnly(s, j) ==
    [s EXCEPT !.jobs[j].completed = @ - 1]

decrementBatchFailed(s, j) ==
    [s EXCEPT !.jobs[j].completed = @ - 1, !.jobs[j].failed = @ - 1]

----------------------------------------------------------------------------
(* Generation Gateway *)

\* What client.models.generateContent can do: the response shapes generateImage
\* tells apart, and a thrown value.
Responses == {"image", "no_candidates", "no_content", "finish_safety", "no_image"}
Thrown == {"throw_403", "throw_429", "throw_safety", "throw_other", "throw_empty",
           "throw_nonerror", "throw_no_key"}
AllProviderOutcomes == Responses \cup Thrown

\* error instanceof Error ? error.message : 'Unknown error'
ErrorMessage(outcome) ==
    CASE outcome = "throw_403" -> "403 PERMISSION_DENIED"
      [] outcome = "throw_429" -> "429 Too Many Requests"
      [] outcome = "throw_safety" -> "blocked for Safety reasons"
      [] outcome = "throw_other" -> "fetch failed"
      [] outcome = "throw_empty" -> ""
      [] outcome = "throw_no_key" -> "GEMINI_API_KEY environment variable is not set"
      [] OTHER -> "Unknown error"

\* `API error: ${errorMessage}`
ApiError(errorMessage) ==
    CASE errorMessage = "" -> "API error: "
      [] errorMessage = "fetch failed" -> "API error: fetch failed"
      [] errorMessage = "GEMINI_API_KEY environment variable is not set" ->
           "API error: GEMINI_API_KEY environment variable is not set"
      [] OTHER -> "API error: Unknown error"

\* Slip: the failure result carries no message.
Failure_noMessage(error) ==
    [success |-> FALSE, image |-> NULL, mimeType |-> NULL, error |-> NULL]

Failure(error) ==
    [success |-> FALSE, image |-> NULL, mimeType |-> NULL, error |-> error]

generateImage(outcome) ==
    CASE outcome = "image" ->
           [success |-> TRUE, image |-> "generated", mimeType |-> "image/png",
            error |-> NULL]
      [] outcome = "no_candidates" -> Failure("No response generated")
      [] outcome = "no_content" -> Failure("No content in response")
      [] outcome = "finish_safety" -> Failure("Content was blocked by safety filters")
      [] outcome = "no_image" -> Failure("No image found in response")
      [] OTHER ->
           LET errorMessage == ErrorMessage(outcome)
           IN IF errorMessage = "403 PERMISSION_DENIED"
              THEN Failure("API key does not have permission")
              ELSE IF errorMessage = "429 Too Many Requests"
              THEN Failure("Rate limit exceeded. Please try again later.")
              ELSE IF errorMessage = "blocked for Safety reasons"
              THEN Failure("Content was blocked by safety filters")
              ELSE Failure(ApiError(errorMessage))

----------------------------------------------------------------------------
(* Supervisor *)

\* Slip: any entry of the map counts as active.
isProcessingBatch_hasEntry(s, j) == s.active[j] # "none"

isProcessingBatch(s, j) == s.active[j] = "true"

cancelBatch(s, j) == [s EXCEPT !.active[j] = "false"]

\* activeBatches.delete(batchId) / activeJobs.delete(jobId) in the finally block,
\* after which the processor instance is gone.
Cleanup(s, p, j) ==
    [s EXCEPT !.active[j] = "none", !.procs[p] = IdleProc]

----------------------------------------------------------------------------
(* Processors *)

FreeProcs(s) == {p \in ProcIds : s.procs[p].pc = "idle"}
FreeProc(s) == SetMin(FreeProcs(s))

\* Slip: the else branch of the final check is missing.
FinalizeBatch_onlyFailed(s, p, j) ==
    LET finalBatch == s.jobs[j]
        s1 == IF finalBatch.failed = finalBatch.total
              THEN updateBatchStatus(s, j, "failed")
              ELSE s
    IN Cleanup(s1, p, j)

\* processBatch, "Check final status" to the finally block.
FinalizeBatch(s, p, j) ==
    LET finalBatch == s.jobs[j]
        s1 == IF finalBatch.failed = finalBatch.total
              THEN updateBatchStatus(s, j, "failed")
              ELSE updateBatchStatus(s, j, "completed")
    IN Cleanup(s1, p, j)

\* Rows in the order getPptxSlides returns them (ORDER BY slide_number).
RECURSIVE BySlideNumber(_, _)
BySlideNumber(s, T) ==
    IF T = {} THEN <<>>
    ELSE LET t == CHOOSE x \in T :
                    \A y \in T : s.tasks[x].slide_number <= s.tasks[y].slide_number
         IN <<t>> \o BySlideNumber(s, T \ {t})

getPptxSlides(s, j) == BySlideNumber(s, TasksOf(s, j))

\* images.sort((a, b) => a.slideNumber - b.slideNumber): stable insertion sort.
RECURSIVE SortBySlideNumber(_)
SortBySlideNumber(images) ==
    IF images = <<>> THEN <<>>
    ELSE LET rest == SortBySlideNumber(Tail(images))
             x == Head(images)
             before == SelectSeq(rest, LAMBDA y : y.slideNumber < x.slideNumber)
             after == SelectSeq(rest, LAMBDA y : y.slideNumber >= x.slideNumber)
         IN before \o <<x>> \o after

\* Slip: failed slides get no fallback image.
AllSlides_noFallback(s, j) ==
    LET slides == getPptxSlides(s, j)
        done == SelectSeq(slides, LAMBDA t :
                    s.tasks[t].status = "completed" /\ s.tasks[t].output # NULL)
        beautifiedSlides == [i \in 1..Len(done) |->
                    [slideNumber |-> s.tasks[done[i]].slide_number,
                     imageData |-> s.tasks[done[i]].output]]
    IN SortBySlideNumber(beautifiedSlides)

\* The argument of createPptxFromImages: beautified slides, then the originals
\* of the failed slides, sorted by slide number.
AllSlides(s, j) ==
    LET slides == getPptxSlides(s, j)
        done == SelectSeq(slides, LAMBDA t :
                    s.tasks[t].status = "completed" /\ s.tasks[t].output # NULL)
        bad == SelectSeq(slides, LAMBDA t : s.tasks[t].status = "failed")
        beautifiedSlides == [i \in 1..Len(done) |->
                    [slideNumber |-> s.tasks[done[i]].slide_number,
                     imageData |-> s.tasks[done[i]].output]]
        failedSlides == [i \in 1..Len(bad) |->
                    [slideNumber |-> s.tasks[bad[i]].slide_number,
                     imageData |-> s.tasks[bad[i]].original_image]]
    IN SortBySlideNumber(beautifiedSlides \o failedSlides)

\* processPptxJob, "Assemble final PPTX" up to the await of createPptxFromImages
\* (or to the finally block when every slide failed).  images is what the call
\* in flight was given.
FinalizePptx(s, p, j) ==
    LET finalJob == s.jobs[j]
    IN IF finalJob.failed = finalJob.total
       THEN Cleanup(updateBatchStatus(s, j, "failed"), p, j)
       ELSE [updateBatchStatus(s, j, "assembling") EXCEPT
                !.procs[p].pc = "assembly", !.procs[p].item = 0,
                !.procs[p].images = AllSlides(s, j)]

Finalize(s, p, j) ==
    IF s.jobs[j].kind = "pptx" THEN FinalizePptx(s, p, j) ELSE FinalizeBatch(s, p, j)

\* Slip: the loop does not test the supervisor flag.
LoopHead_noCancelCheck(s, p, j) ==
    LET item == getNextPending(s, j)
    IN IF item = 0 THEN Finalize(s, p, j)
       ELSE [updateBatchItemStatus(s, item, "processing", NoResult) EXCEPT
                !.procs[p].pc = "gateway",
                !.procs[p].item = item,
                !.procs[p].calls = @ + 1]

\* One evaluation of the while condition and, when the loop goes on, the body up
\* to the await of generateImage.  item is the row getNextPending returned.
LoopHead(s, p, j) ==
    LET item == getNextPending(s, j)
    IN IF item = 0 THEN Finalize(s, p, j)
       ELSE IF s.active[j] # "true" THEN Finalize(s, p, j)
       ELSE [updateBatchItemStatus(s, item, "processing", NoResult) EXCEPT
                !.procs[p].pc = "gateway",
                !.procs[p].item = item,
                !.procs[p].calls = @ + 1]

\* Slip: no duplicate-processing guard.
processBatch_noGuard(s, j, retryOf) ==
    LET p == FreeProc(s)
        s1 == [s EXCEPT !.active[j] = "true",
                        !.procs[p] = [job |-> j, pc |-> "start", item |-> 0,
                                      retryOf |-> retryOf, calls |-> 0,
                                           images |-> <<>>, cancelled |-> FALSE,
                                           alone |-> \A q \in ProcIds :
                                               s.procs[q].pc # "idle"
                                                   => s.procs[q].job # j]]
    IN IF ~JobExists(s1, j) THEN Cleanup(s1, p, j)
       ELSE LoopHead(updateBatchStatus(s1, j, "processing"), p, j)

\* processBatch / processPptxJob from the call to the first await.  retryOf,
\* cancelled and alone are bookkeeping: the task whose retry made this call (0
\* otherwise), whether a cancel was served since the registration, and whether
\* no other instance of the job was alive at the registration.
processBatch(s, j, retryOf) ==
    IF s.active[j] = "true" THEN s
    ELSE LET p == FreeProc(s)
             s1 == [s EXCEPT !.active[j] = "true",
                             !.procs[p] = [job |-> j, pc |-> "start", item |-> 0,
                                           retryOf |-> retryOf, calls |-> 0,
                                           images |-> <<>>, cancelled |-> FALSE,
                                           alone |-> \A q \in ProcIds :
                                               s.procs[q].pc # "idle"
                                                   => s.procs[q].job # j]]
         IN IF ~JobExists(s1, j) THEN Cleanup(s1, p, j)
            ELSE LoopHead(updateBatchStatus(s1, j, "processing"), p, j)

\* Slip: the completed branch does not pass the generated image on.
RecordOutcome_dropsImage(s, j, item, result, elapsed) ==
    LET ok == IF s.jobs[j].kind = "pptx"
              THEN result.success /\ result.image # NULL
              ELSE result.success /\ result.image # NULL /\ result.mimeType # NULL
    IN IF ok
       THEN incrementBatchCompleted(
              updateBatchItemStatus(s, item, "completed",
                  [image |-> NULL, error |-> NULL, processingTime |-> elapsed]),
              j, FALSE)
       ELSE incrementBatchCompleted(
              updateBatchItemStatus(s, item, "failed",
                  [image |-> NULL,
                   error |-> IF OrNull(result.error) = NULL THEN "Unknown error"
                             ELSE result.error,
                   processingTime |-> elapsed]),
              j, TRUE)

\* The task outcome recorded after the await of generateImage returns.
RecordOutcome(s, j, item, result, elapsed) ==
    LET ok == IF s.jobs[j].kind = "pptx"
              THEN result.success /\ result.image # NULL
              ELSE result.success /\ result.image # NULL /\ result.mimeType # NULL
    IN IF ok
       THEN incrementBatchCompleted(
              updateBatchItemStatus(s, item, "completed",
                  [image |-> result.image, error |-> NULL, processingTime |-> elapsed]),
              j, FALSE)
       ELSE incrementBatchCompleted(
              updateBatchItemStatus(s, item, "failed",
                  [image |-> NULL,
                   error |-> IF OrNull(result.error) = NULL THEN "Unknown error"
                             ELSE result.error,
                   processingTime |-> elapsed]),
              j, TRUE)

----------------------------------------------------------------------------
(* Actions *)

Init ==
    /\ jobs = <<>>
    /\ tasks = <<>>
    /\ active = [j \in JobIds |-> "none"]
    /\ procs = [p \in ProcIds |-> IdleProc]
    /\ pptxResults = {}
    /\ nRestarts = 0
    /\ retried = {}
    /\ lastOp = [op |-> "init", job |-> 0, task |-> 0, code |-> 0, proc |-> 0]

\* The processor slot a call of processBatch takes in state s, 0 when it returns
\* at its guard.
StartedProc(s, j) == IF s.active[j] = "true" THEN 0 ELSE FreeProc(s)

PendingIn(s) == {t \in DOMAIN s.tasks : s.tasks[t].status = "pending"}

\* POST /api/batch and POST /api/pptx/beautify after input validation.
CreateJob(kind, n, order) ==
    /\ kind = "pptx" => order = "asc"
    /\ Len(jobs) < MaxJobs
    /\ Len(tasks) + n <= MaxTasks
    /\ FreeProcs(St) # {}
    /\ LET j == Len(jobs) + 1
           s1 == createBatch(St, kind, n, order)
       IN /\ Commit(processBatch(s1, j, 0))
          /\ lastOp' = [op |-> "create", job |-> j, task |-> 0, code |-> 200,
                        proc |-> StartedProc(s1, j)]
    /\ UNCHANGED <<nRestarts, retried>>

\* A further call of the exported processBatch / processPptxJob for any job id.
Run(j) ==
    /\ nRestarts < MaxRestarts
    /\ FreeProcs(St) # {}
    /\ LET s1 == processBatch(St, j, 0)
       IN /\ Commit(s1)
          /\ retried' = retried \cap PendingIn(s1)
          /\ lastOp' = [op |-> "run", job |-> j, task |-> 0, code |-> 0,
                        proc |-> StartedProc(St, j)]
    /\ nRestarts' = nRestarts + 1

\* generateImage returns to the processor p: outcome recorded, then the await of
\* the inter-task delay.
GatewayReturn(p) ==
    /\ procs[p].pc = "gateway"
    /\ \E outcome \in ProviderOutcomes, elapsed \in ElapsedMs :
         LET j == procs[p].job
             item == procs[p].item
             s1 == RecordOutcome(St, j, item, generateImage(outcome), elapsed)
         IN /\ Commit([s1 EXCEPT !.procs[p].pc = "delay", !.procs[p].item = 0])
            /\ lastOp' = [op |-> "gateway_return", job |-> j, task |-> item,
                          code |-> 0, proc |-> p]
    /\ UNCHANGED <<nRestarts, retried>>

\* generateImage returns under an unset GEMINI_API_KEY: getClient throws inside
\* the try, the catch block answers, and the processor goes on as above.
MissingCredential(p) ==
    /\ procs[p].pc = "gateway"
    /\ \E elapsed \in ElapsedMs :
         LET j == procs[p].job
             item == procs[p].item
             s1 == RecordOutcome(St, j, item, generateImage("throw_no_key"), elapsed)
         IN /\ Commit([s1 EXCEPT !.procs[p].pc = "delay", !.procs[p].item = 0])
            /\ lastOp' = [op |-> "no_credential", job |-> j, task |-> item,
                          code |-> 0, proc |-> p]
    /\ UNCHANGED <<nRestarts, retried>>

\* The delay timer fires: next pending item, loop test, next body or finalization.
DelayElapsed(p) ==
    /\ procs[p].pc = "delay"
    /\ LET j == procs[p].job
           s1 == LoopHead(St, p, j)
       IN /\ Commit(s1)
          /\ retried' = retried \cap PendingIn(s1)
          /\ lastOp' = [op |-> "delay_elapsed", job |-> j, task |-> s1.procs[p].item,
                        code |-> 0, proc |-> p]
    /\ UNCHANGED nRestarts

\* Slip: the catch block around the assembly only logs.
AssemblyReturn_onlyLogs(p) ==
    /\ procs[p].pc = "assembly"
    /\ \E ok \in BOOLEAN :
         LET j == procs[p].job
             s1 == IF ok
                   THEN updateBatchStatus(
                          [St EXCEPT !.pptxResults = @ \cup {j}], j, "completed")
                   ELSE St
         IN /\ Commit(Cleanup(s1, p, j))
            /\ lastOp' = [op |-> "assembly_return", job |-> j, task |-> 0,
                          code |-> IF ok THEN 1 ELSE 0, proc |-> p]
    /\ UNCHANGED <<nRestarts, retried>>

\* createPptxFromImages resolves (ok) or rejects.
AssemblyReturn(p) ==
    /\ procs[p].pc = "assembly"
    /\ \E ok \in BOOLEAN :
         LET j == procs[p].job
             s1 == IF ok
                   THEN updateBatchStatus(
                          [St EXCEPT !.pptxResults = @ \cup {j}], j, "completed")
                   ELSE updateBatchStatus(St, j, "failed")
         IN /\ Commit(Cleanup(s1, p, j))
            /\ lastOp' = [op |-> "assembly_return", job |-> j, task |-> 0,
                          code |-> IF ok THEN 1 ELSE 0, proc |-> p]
    /\ UNCHANGED <<nRestarts, retried>>

\* Slip: the status test is missing.
RetryCode_noStatusTest(s, j, t) ==
    IF ~JobExists(s, j) \/ ~TaskExists(s, t) THEN 404
    ELSE IF s.tasks[t].job # j THEN 404
    ELSE 200

\* The response status of the retry handler: its two validation tests.
RetryCode(s, j, t) ==
    IF ~JobExists(s, j) \/ ~TaskExists(s, t) THEN 404
    ELSE IF s.tasks[t].job # j THEN 404
    ELSE IF s.tasks[t].status # "failed" THEN 400
    ELSE 200

\* POST /:batchId/items/:itemId/retry and POST /:jobId/slides/:slideId/retry.
\* retryOf of a started processor is t when every other task of the job is
\* terminal; a retry of another task of the job clears it on running processors.
Retry(j, t) ==
    IF RetryCode(St, j, t) # 200
    THEN /\ lastOp' = [op |-> "retry", job |-> 0, task |-> 0,
                       code |-> RetryCode(St, j, t), proc |-> 0]
         /\ UNCHANGED <<jobs, tasks, active, procs, pptxResults, nRestarts, retried>>
    ELSE /\ nRestarts < MaxRestarts
         /\ FreeProcs(St) # {}
         /\ LET batch == jobs[j]
                s1 == decrementBatchFailed(resetBatchItem(St, t), j)
                s2 == IF batch.status \in {"completed", "failed"}
                      THEN updateBatchStatus(s1, j, "processing")
                      ELSE s1
                s2c == [s2 EXCEPT !.procs = [p \in ProcIds |->
                           IF s2.procs[p].job = j
                           THEN [s2.procs[p] EXCEPT !.retryOf = 0]
                           ELSE s2.procs[p]]]
                start == ~isProcessingBatch(s2c, j)
                soleTask == \A u \in TasksOf(s2c, j) \ {t} :
                                s2c.tasks[u].status \in Terminal
                s4 == IF start THEN processBatch(s2c, j, IF soleTask THEN t ELSE 0)
                      ELSE s2c
            IN /\ Commit(s4)
               /\ retried' = (retried \cup {t}) \cap PendingIn(s4)
               /\ lastOp' = [op |-> "retry", job |-> j, task |-> t, code |-> 200,
                             proc |-> IF start THEN StartedProc(s2c, j) ELSE 0]
         /\ nRestarts' = nRestarts + 1

\* POST /:id/cancel.
\* Bookkeeping: the processor instances of job j that are registered when a
\* cancel request for j is served.
CancelSeenBy(s, j) ==
    [s EXCEPT !.procs = [p \in ProcIds |->
        IF s.procs[p].pc # "idle" /\ s.procs[p].job = j
        THEN [s.procs[p] EXCEPT !.cancelled = TRUE]
        ELSE s.procs[p]]]

Cancel(j) ==
    IF ~JobExists(St, j)
    THEN /\ lastOp' = [op |-> "cancel", job |-> 0, task |-> 0, code |-> 404, proc |-> 0]
         /\ UNCHANGED <<jobs, tasks, active, procs, pptxResults, nRestarts, retried>>
    ELSE /\ Commit(updateBatchStatus(CancelSeenBy(cancelBatch(St, j), j), j, "failed"))
         /\ retried' = retried \ TasksOf(St, j)
         /\ lastOp' = [op |-> "cancel", job |-> j, task |-> 0, code |-> 200, proc |-> 0]
         /\ UNCHANGED nRestarts

Next ==
    \/ \E kind \in Kinds, n \in 1..MaxTasks, order \in Orders : CreateJob(kind, n, order)
    \/ \E p \in ProcIds : GatewayReturn(p)
    \/ \E p \in ProcIds : DelayElapsed(p)
    \/ \E p \in ProcIds : AssemblyReturn(p)
    \/ \E j \in JobIds, t \in TaskIds : Retry(j, t)
    \/ \E j \in JobIds : Cancel(j)

\* The requests the routes make.
Spec == Init /\ [][Next]_vars

\* The same requests in a server started without GEMINI_API_KEY: every Gateway
\* call ends in getClient's throw.
NextNoKey ==
    \/ \E kind \in Kinds, n \in 1..MaxTasks, order \in Orders : CreateJob(kind, n, order)
    \/ \E p \in ProcIds : MissingCredential(p)
    \/ \E p \in ProcIds : DelayElapsed(p)
    \/ \E p \in ProcIds : AssemblyReturn(p)
    \/ \E j \in JobIds, t \in TaskIds : Retry(j, t)
    \/ \E j \in JobIds : Cancel(j)

SpecNoKey == Init /\ [][NextNoKey]_vars

NextApi ==
    \/ Next
    \/ \E j \in JobIds : Run(j)

\* The routes plus direct calls of the exported processor entry point.
SpecApi == Init /\ [][NextApi]_vars

\* A call of the exported createBatch / createPptxJob with a list of n items.
CreateBatchCall(kind, n, order) ==
    /\ kind = "pptx" => order = "asc"
    /\ Len(jobs) < MaxJobs
    /\ Len(tasks) + n <= MaxTasks
    /\ Commit(createBatch(St, kind, n, order))
    /\ lastOp' = [op |-> "create_call", job |-> Len(jobs) + 1, task |-> 0,
                  code |-> 200, proc |-> 0]
    /\ UNCHANGED <<nRestarts, retried>>

NextStore ==
    \/ NextApi
    \/ \E kind \in Kinds, n \in 0..MaxTasks, order \in Orders :
          CreateBatchCall(kind, n, order)

\* The routes plus direct calls of the exported store and processor functions.
SpecStore == Init /\ [][NextStore]_vars

\* A suspended processor is resumed: its Gateway call or its assembly call
\* returns, or its delay timer fires.
Resume(p) == GatewayReturn(p) \/ DelayElapsed(p) \/ AssemblyReturn(p)

\* The routes, with every Gateway call and every assembly call returning and
\* every delay timer firing: while a processor is suspended, one is resumed.
SpecLive == Spec /\ WF_vars(\E p \in ProcIds : Resume(p))

\* Slip: the map entry is deleted at the end of the try block, not in finally.
Throw_noFinally(s, p, j) == [s EXCEPT !.procs[p] = IdleProc]

\* An exception leaves the try block of the processor p: the finally block runs
\* and the rejection goes to the .catch of the caller.
Throw(s, p, j) == Cleanup(s, p, j)

\* The writes a processor segment has made when a store call in it throws.
\* At the Gateway return: the update in the catch block throws too (none), the
\* catch block records the failure and its increment throws (failed_uncounted),
\* or the outcome is recorded, the increment throws and so does the update in
\* the catch block (recorded_uncounted).  At the delay: a read or the
\* processing / assembling update throws (none), or getPptxSlides throws after
\* the assembling update and the catch block's failed update works
\* (assembling_failed) or throws (assembling_stuck).  At the assembly return:
\* the completed update throws and the catch block's failed update works
\* (stored_failed) or throws as well (stored_stuck).
FaultPoints(s, p) ==
    LET j == s.procs[p].job
    IN CASE s.procs[p].pc = "gateway" ->
              {"none", "failed_uncounted", "recorded_uncounted"}
         [] s.procs[p].pc = "delay" ->
              IF LoopHead(s, p, j).procs[p].pc = "assembly"
              THEN {"none", "assembling_failed", "assembling_stuck"}
              ELSE {"none"}
         [] s.procs[p].pc = "assembly" -> {"stored_failed", "stored_stuck"}
         [] OTHER -> {}

Faulted(s, p, point, outcome, elapsed) ==
    LET j == s.procs[p].job
        item == s.procs[p].item
    IN CASE point = "failed_uncounted" ->
              updateBatchItemStatus(s, item, "failed",
                  [image |-> NULL, error |-> "database is locked",
                   processingTime |-> elapsed])
         [] point = "recorded_uncounted" ->
              [s EXCEPT !.tasks =
                  RecordOutcome(s, j, item, generateImage(outcome), elapsed).tasks]
         [] point = "assembling_failed" -> updateBatchStatus(s, j, "failed")
         [] point = "assembling_stuck" -> updateBatchStatus(s, j, "assembling")
         [] point = "stored_failed" ->
              updateBatchStatus([s EXCEPT !.pptxResults = @ \cup {j}], j, "failed")
         [] point = "stored_stuck" -> [s EXCEPT !.pptxResults = @ \cup {j}]
         [] OTHER -> s

\* A store call throws in the segment the processor p resumes with, and the
\* run ends.
StoreFailure(p) ==
    /\ procs[p].pc # "idle"
    /\ nRestarts < MaxRestarts
    /\ \E point \in FaultPoints(St, p), outcome \in ProviderOutcomes,
          elapsed \in ElapsedMs :
         LET j == procs[p].job
             s1 == Throw(Faulted(St, p, point, outcome, elapsed), p, j)
         IN /\ Commit(s1)
            /\ retried' = retried \cap PendingIn(s1)
            /\ lastOp' = [op |-> "store_failure", job |-> j, task |-> procs[p].item,
                          code |-> 0, proc |-> p]
    /\ nRestarts' = nRestarts + 1

\* A store call in the Gateway-return segment throws and the catch block of the
\* loop body records the task as failed with the exception's message.
StoreFailureCaught(p) ==
    /\ procs[p].pc = "gateway"
    /\ nRestarts < MaxRestarts
    /\ \E elapsed \in ElapsedMs :
         LET j == procs[p].job
             item == procs[p].item
             s1 == incrementBatchCompleted(
                     updateBatchItemStatus(St, item, "failed",
                         [image |-> NULL, error |-> "database is locked",
                          processingTime |-> elapsed]),
                     j, TRUE)
         IN /\ Commit([s1 EXCEPT !.procs[p].pc = "delay", !.procs[p].item = 0])
            /\ lastOp' = [op |-> "gateway_return", job |-> j, task |-> item,
                          code |-> 0, proc |-> p]
    /\ retried' = retried
    /\ nRestarts' = nRestarts + 1

\* A call of processBatch / processPptxJob in which getBatch throws (no write)
\* or getNextPending throws after the processing update.
RunThrows(j) ==
    /\ nRestarts < MaxRestarts
    /\ FreeProcs(St) # {}
    /\ active[j] # "true"
    /\ \E wrote \in BOOLEAN :
         LET p == FreeProc(St)
             s1 == [St EXCEPT !.active[j] = "true"]
             s2 == IF wrote THEN updateBatchStatus(s1, j, "processing") ELSE s1
         IN /\ Commit(Throw(s2, p, j))
            /\ lastOp' = [op |-> "run_throws", job |-> j, task |-> 0, code |-> 0,
                          proc |-> p]
    /\ retried' = retried
    /\ nRestarts' = nRestarts + 1

NextFaulty ==
    \/ NextApi
    \/ \E p \in ProcIds : StoreFailure(p)
    \/ \E p \in ProcIds : StoreFailureCaught(p)
    \/ \E j \in JobIds : RunThrows(j)

\* The routes and direct calls, with a store whose calls can throw.
SpecFaulty == Init /\ [][NextFaulty]_vars

----------------------------------------------------------------------------
(* Properties *)

ProcOps == {"gateway_return", "no_credential", "delay_elapsed", "assembly_return"}
StartOps == {"create", "retry", "run"}

\* The processor instances between registration and cleanup for job j.
Running(j) == {p \in ProcIds : procs[p].pc # "idle" /\ procs[p].job = j}

InStatus(j, st) == {t \in TasksOf(St, j) : tasks[t].status = st}

\* C1: in every reachable state every job has
\* 0 <= failed_count <= completed_count <= total_count.
C1_CounterOrder ==
    \A j \in DOMAIN jobs :
        /\ 0 <= jobs[j].failed
        /\ jobs[j].failed <= jobs[j].completed
        /\ jobs[j].completed <= jobs[j].total

\* A job all of whose tasks are resolved again after a retry, one of them failed.
C1_Witness ==
    \E j \in DOMAIN jobs :
        /\ nRestarts > 0
        /\ jobs[j].total = 2 /\ jobs[j].completed = 2 /\ jobs[j].failed = 1

\* C2: for every job id at most one processor instance is between its
\* registration and its cleanup.
C2_OneProcessorPerJob ==
    \A j \in JobIds : Cardinality(Running(j)) <= 1

\* C3: at most one task of a job is in status processing (one Gateway call in
\* flight per job).
C3_OneTaskInFlight ==
    \A j \in DOMAIN jobs : Cardinality(InStatus(j, "processing")) <= 1

\* C4: a call of run(jobId) while the Supervisor marks the job active writes
\* nothing to the store, calls no Gateway and starts no second drain.
C4_SecondRunNoOp ==
    [][(lastOp'.op = "run" /\ active[lastOp'.job] = "true")
          => /\ UNCHANGED <<jobs, tasks, active, procs, pptxResults, retried>>
             /\ lastOp'.proc = 0]_vars

\* A run call that returned at its guard while the first run of that job has a
\* Gateway call in flight.
C4_Witness ==
    /\ lastOp.op = "run" /\ lastOp.proc = 0
    /\ lastOp.job \in DOMAIN jobs
    /\ active[lastOp.job] = "true"
    /\ \E p \in Running(lastOp.job) : procs[p].pc = "gateway"

\* C5: a processor whose loop exits on an observed cancellation with pending
\* tasks left sets the job failed and ends, without the completed/failed
\* evaluation and without assembly; once no processor of the job is left, the
\* failed job stays failed until a retry.
C5_CancelledRunEndsFailed ==
    [][/\ \A p \in ProcIds :
            (/\ procs[p].pc = "delay"
             /\ lastOp'.op = "delay_elapsed" /\ lastOp'.proc = p
             /\ active[procs[p].job] = "false"
             /\ getNextPending(St, procs[p].job) # 0)
            => /\ jobs'[procs[p].job].status = "failed"
               /\ procs'[p].pc = "idle"
       /\ \A j \in DOMAIN jobs :
            (jobs[j].status = "failed" /\ Running(j) = {} /\ lastOp'.op # "retry")
            => jobs'[j].status = "failed"]_vars

\* C6: a task in flight when its job is cancelled is still recorded (terminal
\* status, counters incremented) before its processor leaves the loop, and
\* without a new processor start no pending task of the job is picked up.
C6_SoftCancel ==
    [][/\ \A t \in DOMAIN tasks :
            (/\ tasks[t].status = "processing"
             /\ active[tasks[t].job] = "false"
             /\ tasks'[t] # tasks[t])
            => LET j == tasks[t].job
               IN /\ tasks'[t].status \in Terminal
                  /\ jobs'[j].completed = jobs[j].completed + 1
                  /\ jobs'[j].failed =
                       jobs[j].failed + (IF tasks'[t].status = "failed" THEN 1 ELSE 0)
                  /\ \E p \in Running(j) : procs[p].item = t /\ procs'[p].pc = "delay"
       /\ \A p \in ProcIds :
            (procs[p].pc = "gateway" /\ active[procs[p].job] = "false")
            => /\ tasks[procs[p].item].status = "processing"
               /\ procs'[p].pc \in {"gateway", "delay"}
       /\ \A t \in DOMAIN tasks :
            (/\ tasks[t].status = "pending"
             /\ active[tasks[t].job] # "true"
             /\ tasks'[t].status # "pending")
            => lastOp'.op \in StartOps /\ lastOp'.proc # 0]_vars

\* The in-flight task of a cancelled job has just been recorded while another
\* task of the job is still pending.
C6_Witness ==
    /\ lastOp.op = "gateway_return"
    /\ active[lastOp.job] = "false"
    /\ tasks[lastOp.task].status \in Terminal
    /\ InStatus(lastOp.job, "pending") # {}

\* The step of an accepted retry.
RetryAccepted == lastOp'.op = "retry" /\ lastOp'.code = 200 /\ nRestarts' = nRestarts + 1

\* The processor slots taken in this step for job j.
StartedFor(j) ==
    {p \in ProcIds : procs[p].pc = "idle" /\ procs'[p].pc # "idle" /\ procs'[p].job = j}

RetryCountersAndStart(j, t) ==
    /\ tasks'[t].output = NULL
    /\ tasks'[t].error = NULL
    /\ tasks'[t].duration = NoDuration
    /\ jobs'[j].completed = jobs[j].completed - 1
    /\ jobs'[j].failed = jobs[j].failed - 1
    /\ (jobs[j].status \in Terminal => jobs'[j].status = "processing")
    /\ (StartedFor(j) # {} <=> active[j] # "true")
    /\ Cardinality(StartedFor(j)) <= 1

C8_RetryDrainOnlyRetried ==
    [][\A p \in ProcIds :
          /\ procs'[p].retryOf # 0
             => /\ procs'[p].calls = 1
                /\ procs'[p].item \in {0, procs'[p].retryOf}
          /\ (procs[p].retryOf # 0 /\ lastOp'.proc = p /\ lastOp'.op \in ProcOps)
             => /\ \A u \in TasksOf(St, procs[p].job) \ {procs[p].retryOf} :
                       tasks'[u] = tasks[u]
                /\ tasks'[procs[p].retryOf].status # "pending"]_vars

\* Such a drain has run the retried task of a two-task job and ended.
C8_Witness ==
    /\ lastOp.op = "delay_elapsed" /\ lastOp.task = 0
    /\ nRestarts > 0
    /\ jobs[lastOp.job].total = 2
    /\ jobs[lastOp.job].completed = 2
    /\ procs[lastOp.proc].pc \in {"idle", "assembly"}
    /\ Running(lastOp.job) \subseteq {lastOp.proc}

\* C9: a task reset by an accepted retry, with no cancellation since, is run
\* again: until it is picked up, a processor of its job is suspended at the
\* Gateway or at the delay, from where the loop fetches the next pending task.
C9_RetryServed ==
    \A t \in retried :
        \E p \in Running(tasks[t].job) : procs[p].pc \in {"gateway", "delay"}

RetryValid(j, t) ==
    /\ j \in DOMAIN jobs
    /\ t \in DOMAIN tasks
    /\ tasks[t].job = j
    /\ tasks[t].status = "failed"

\* C10: a retry is accepted only for a failed task of the named job; a rejected
\* retry changes no task, counter, job status or Supervisor entry and starts
\* no processor, and no step resets a task that is not failed.
C10_RejectedRetryChangesNothing ==
    [][/\ (lastOp'.op = "retry" /\ lastOp'.code # 200)
          => UNCHANGED <<jobs, tasks, active, procs, pptxResults, nRestarts, retried>>
       /\ (lastOp'.op = "retry" /\ lastOp'.code = 200)
          => RetryValid(lastOp'.job, lastOp'.task)
       /\ \A t \in DOMAIN tasks :
            (tasks[t].status \in {"processing", "completed"})
            => tasks'[t].status # "pending"]_vars

\* A retry of a task that is not failed was just rejected with two jobs present.
C10_Witness ==
    /\ lastOp.op = "retry" /\ lastOp.code = 400
    /\ Len(jobs) = 2
    /\ \E t \in DOMAIN tasks : tasks[t].status = "completed"

\* Output and error of a task row agree with its status.
RowConsistent(row) ==
    /\ (row.output # NULL <=> row.status = "completed")
    /\ (row.error # NULL <=> row.status = "failed")

\* C11: in every reachable state a task's output is non-null iff its status is
\* completed and its error is non-null iff its status is failed, and this
\* stays so whatever the Gateway call in flight returns, for every response
\* shape and every thrown message of the provider.
C11_OutputErrorMatchStatus ==
    /\ \A t \in DOMAIN tasks : RowConsistent(tasks[t])
    /\ \A p \in ProcIds :
          procs[p].pc = "gateway"
          => \A outcome \in AllProviderOutcomes, elapsed \in {0} \cup ElapsedMs :
                RowConsistent(
                    RecordOutcome(St, procs[p].job, procs[p].item,
                                  generateImage(outcome), elapsed).tasks[procs[p].item])

\* A job with a completed task whose other task, failed before, is in flight
\* again after a retry.
C11_Witness ==
    /\ nRestarts > 0
    /\ \E p \in ProcIds :
          /\ procs[p].pc = "gateway"
          /\ tasks[procs[p].item].status = "processing"
          /\ \E t \in TasksOf(St, procs[p].job) :
                tasks[t].status = "completed" /\ tasks[t].output # NULL

\* A processor p leaves its loop in this step (no task picked).
LeavesLoop(p) ==
    /\ procs[p].pc = "delay"
    /\ lastOp'.op = "delay_elapsed" /\ lastOp'.proc = p
    /\ procs'[p].pc # "gateway"

\* C12: a drain that ends with failed_count = total_count takes the job from
\* processing (failed after a cancel) to failed in the step that leaves the
\* loop: the status was not assembling, assembling is not set, no assembly is
\* started and no deck is stored.
C12_AllFailedSkipsAssembly ==
    [][\A p \in ProcIds :
          (LeavesLoop(p) /\ jobs[procs[p].job].failed = jobs[procs[p].job].total)
          => LET j == procs[p].job
             IN /\ \/ jobs[j].status = "processing"
                   \/ active[j] # "true" /\ jobs[j].status = "failed"
                /\ jobs'[j].status = "failed"
                /\ procs'[p].pc = "idle"
                /\ \A q \in ProcIds : procs[q].job = j => procs[q].pc # "assembly"
                /\ pptxResults' = pptxResults]_vars

\* One image per task of job j in ascending slide number: the output of a
\* completed task, the original input of a failed one.
ExpectedImages(j) ==
    [i \in 1..jobs[j].total |->
        LET t == CHOOSE u \in TasksOf(St, j) : tasks[u].slide_number = i
        IN [slideNumber |-> i,
            imageData |-> IF tasks[t].status = "completed" THEN tasks[t].output
                          ELSE tasks[t].original_image]]

\* C13: when a deck processor leaves its loop with every task terminal and at
\* least one completed, completed_count = total_count, failed_count is the
\* number of failed tasks and assembly is called with one image per task in
\* ascending ordinal order (output if completed, original input if failed);
\* when that assembly succeeds the job is set completed.
C13_AssemblyInput ==
    [][\A p \in ProcIds :
          /\ (/\ LeavesLoop(p)
              /\ jobs[procs[p].job].kind = "pptx"
              /\ InStatus(procs[p].job, "completed") # {}
              /\ \A t \in TasksOf(St, procs[p].job) : tasks[t].status \in Terminal)
             => LET j == procs[p].job
                IN /\ jobs'[j].completed = jobs'[j].total
                   /\ jobs'[j].failed = Cardinality(InStatus(j, "failed"))
                   /\ procs'[p].pc = "assembly"
                   /\ procs'[p].images = ExpectedImages(j)
          /\ (/\ procs[p].pc = "assembly"
              /\ lastOp'.op = "assembly_return" /\ lastOp'.proc = p /\ lastOp'.code = 1)
             => /\ jobs'[procs[p].job].status = "completed"
                /\ procs[p].job \in pptxResults']_vars

\* Assembly of a two-slide deck is in flight with the original of the failed
\* slide 1 and the output of the completed slide 2.
C13_Witness ==
    \E p \in ProcIds :
        /\ procs[p].pc = "assembly"
        /\ Len(procs[p].images) = 2
        /\ procs[p].images[1].imageData = "original-1"
        /\ procs[p].images[2].imageData = "generated"
        /\ jobs[procs[p].job].completed = 2 /\ jobs[procs[p].job].failed = 1

\* The ordinal of a task (slide_number of a slide, filename of a batch item) and
\* its 1-based position among the tasks of its job.
Ordinal(t) ==
    IF jobs[tasks[t].job].kind = "pptx" THEN tasks[t].slide_number
    ELSE tasks[t].filename

Rank(t) ==
    1 + Cardinality({u \in TasksOf(St, tasks[t].job) : Ordinal(u) < Ordinal(t)})

\* Job j is in a drain that no retry and no cancel has touched.
PlainDrain(j) == nRestarts = 0 /\ jobs[j].status = "processing"

\* C14: in a drain without retry or cancel one processor works the tasks in
\* strictly ascending ordinal order, one Gateway call each: at its k-th call the
\* k-th task is in flight, the k-1 tasks before it are recorded with the
\* counter at k-1 and all later tasks are pending; a call starts only from the
\* start of the run or from the elapsed delay, and the loop is left after as
\* many calls as the job has tasks.
C14_AscendingOnePerTask ==
    [][/\ \A j \in DOMAIN jobs :
            PlainDrain(j)
            => \E p \in ProcIds :
                 LET k == procs[p].calls
                 IN /\ Running(j) = {p}
                    /\ procs[p].pc \in {"gateway", "delay"}
                    /\ jobs[j].completed = IF procs[p].pc = "gateway" THEN k - 1 ELSE k
                    /\ \A t \in TasksOf(St, j) :
                          /\ Rank(t) < k => tasks[t].status \in Terminal
                          /\ Rank(t) > k => tasks[t].status = "pending"
                          /\ Rank(t) = k =>
                                IF procs[p].pc = "gateway"
                                THEN tasks[t].status = "processing" /\ procs[p].item = t
                                ELSE tasks[t].status \in Terminal
       /\ \A p \in ProcIds :
            (/\ procs'[p].pc = "gateway"
             /\ procs[p].pc # "gateway" \/ procs'[p].calls # procs[p].calls)
            => procs[p].pc \in {"idle", "delay"}
       /\ \A p \in ProcIds :
            (LeavesLoop(p) /\ PlainDrain(procs[p].job))
            => procs[p].calls = jobs[procs[p].job].total]_vars

\* The processor p ends its run in this step.
RunEnds(p) == procs[p].pc # "idle" /\ procs'[p].pc = "idle"

\* C15: when a processor run ends, by whatever path (drain complete,
\* cancellation observed, job not found, assembly failure, a store call
\* throwing), the job's Supervisor entry is gone after the step; hence no job
\* is marked active without a running processor, and a run call for a job
\* without a running processor is not turned away at the guard.
C15_CleanupOnEveryExit ==
    [][/\ \A p \in ProcIds : RunEnds(p) => active'[procs[p].job] = "none"
       /\ (/\ lastOp'.op \in {"run", "run_throws"}
           /\ lastOp'.proc # 0
           /\ procs'[lastOp'.proc].pc = "idle")
          => active'[lastOp'.job] = "none"
       /\ \A j \in JobIds : active[j] = "true" => Running(j) # {}
       /\ (lastOp'.op = "run" /\ lastOp'.job \in DOMAIN jobs /\ Running(lastOp'.job) = {})
          => lastOp'.proc # 0]_vars

\* A run ended by a throwing store call while its task was in flight, and the
\* job is not marked active.
C15_Witness ==
    /\ lastOp.op = "store_failure"
    /\ lastOp.task # 0
    /\ tasks[lastOp.task].status = "processing"
    /\ active[lastOp.job] = "none"
    /\ Running(lastOp.job) = {}

\* C16: with every Gateway call, delay and assembly call returning, no store
\* call throwing and finitely many retries, every started processor run ends
\* (runs being started finitely often, the system is again and again without a
\* running processor), and the step that ends a run leaves the job completed
\* or failed.
C16_RunsEndTerminal ==
    /\ [][\A p \in ProcIds :
            RunEnds(p) => jobs'[procs[p].job].status \in Terminal]_vars
    /\ []<>(\A p \in ProcIds : procs[p].pc = "idle")

\* A run started by a retry has ended and left its two-task job terminal.
C16_Witness ==
    /\ lastOp.op \in ProcOps
    /\ nRestarts > 0
    /\ procs[lastOp.proc].pc = "idle"
    /\ Running(lastOp.job) = {}
    /\ jobs[lastOp.job].total = 2
    /\ jobs[lastOp.job].status \in Terminal

\* C17: a job created with N tasks has estimated_cost = N x COST_PER_IMAGE and
\* total_count = N, and no step changes the estimated_cost or the total_count
\* of an existing job.
C17_CostFixedAtCreation ==
    [][/\ \A j \in DOMAIN jobs' :
            /\ jobs'[j].total = Cardinality(TasksOf([tasks |-> tasks'], j))
            /\ jobs'[j].estimated_cost = jobs'[j].total * COST_PER_IMAGE
       /\ \A j \in DOMAIN jobs :
            /\ j \in DOMAIN jobs'
            /\ jobs'[j].estimated_cost = jobs[j].estimated_cost
            /\ jobs'[j].total = jobs[j].total]_vars

\* A two-task job that went through a failure, a retry and a cancel still has
\* the estimate of two images.
C17_Witness ==
    /\ lastOp.op = "cancel" /\ lastOp.code = 200
    /\ nRestarts > 0
    /\ jobs[lastOp.job].total = 2
    /\ jobs[lastOp.job].estimated_cost = 2 * COST_PER_IMAGE
    /\ jobs[lastOp.job].completed > 0

\* C18: a createJob call either is refused with a validation error and adds
\* no job row and no task row (empty list), or adds one job row with status
\* pending, both counters 0 and total_count = N together with exactly N task
\* rows, all pending, N >= 1.
C18_CreateValidates ==
    [][lastOp'.op = "create_call"
       => \/ /\ lastOp'.code # 200
             /\ jobs' = jobs /\ tasks' = tasks
          \/ LET j == Len(jobs) + 1
                 N == Len(tasks') - Len(tasks)
             IN /\ N >= 1
                /\ Len(jobs') = j
                /\ \A i \in DOMAIN jobs : jobs'[i] = jobs[i]
                /\ \A t \in DOMAIN tasks : tasks'[t] = tasks[t]
                /\ jobs'[j].status = "pending"
                /\ jobs'[j].completed = 0 /\ jobs'[j].failed = 0
                /\ jobs'[j].total = N
                /\ \A t \in DOMAIN tasks' \ DOMAIN tasks :
                      tasks'[t].job = j /\ tasks'[t].status = "pending"]_vars

\* C19: between any two atomic steps a job's completed_count is the number of
\* its tasks in status completed or failed and its failed_count the number of
\* its tasks in status failed.
C19_CountersMatchTasks ==
    \A j \in DOMAIN jobs :
        /\ jobs[j].completed =
              Cardinality(InStatus(j, "completed") \cup InStatus(j, "failed"))
        /\ jobs[j].failed = Cardinality(InStatus(j, "failed"))

\* After a retry one task of a job is in flight again while the other one
\* stands failed.
C19_Witness ==
    \E j \in DOMAIN jobs :
        /\ nRestarts > 0
        /\ InStatus(j, "processing") # {}
        /\ InStatus(j, "failed") # {}
        /\ jobs[j].completed = 1 /\ jobs[j].failed = 1

\* C20: every change of a task's status is pending -> processing (picked by a
\* processor), processing -> completed, processing -> failed or failed ->
\* pending (retry reset); the one step that makes two of these changes is an
\* accepted retry whose started processor picks the task it has just reset
\* (failed -> pending -> processing).  A completed task keeps its status and a
\* pending task does not become terminal.
C20_TaskLifecycle ==
    [][\A t \in DOMAIN tasks :
          LET from == tasks[t].status
              to == tasks'[t].status
          IN from # to
             => \/ from = "pending" /\ to = "processing"
                   /\ \E p \in ProcIds : procs'[p].pc = "gateway" /\ procs'[p].item = t
                \/ from = "processing" /\ to \in Terminal
                \/ from = "failed" /\ to = "pending" /\ RetryAccepted /\ lastOp'.task = t
                \/ /\ from = "failed" /\ to = "processing"
                   /\ RetryAccepted /\ lastOp'.task = t
                   /\ resetBatchItem(St, t).tasks[t].status = "pending"
                   /\ \E p \in StartedFor(lastOp'.job) : procs'[p].item = t]_vars

\* A task that failed, was reset by a retry and picked up again has now been
\* recorded as completed.
C20_Witness ==
    /\ lastOp.op = "gateway_return"
    /\ procs[lastOp.proc].retryOf = lastOp.task
    /\ tasks[lastOp.task].status = "completed"

\* C21: every change of a job's status is pending -> processing (run),
\* processing -> completed or failed (finalization; deck jobs processing ->
\* assembling -> completed or failed), completed or failed -> processing in an
\* accepted retry, or anything -> failed in a cancel.
C21_JobStateMachine ==
    [][\A j \in DOMAIN jobs :
          LET from == jobs[j].status
              to == jobs'[j].status
          IN from # to
             => \/ from = "pending" /\ to = "processing" /\ lastOp'.op \in StartOps
                \/ /\ from = "processing" /\ to \in Terminal
                   /\ jobs[j].kind = "batch" \/ jobs[j].failed = jobs[j].total
                   /\ lastOp'.op \in ProcOps \cup StartOps
                \/ /\ from = "processing" /\ to = "assembling"
                   /\ jobs[j].kind = "pptx"
                   /\ lastOp'.op \in ProcOps \cup StartOps
                \/ from = "assembling" /\ to \in Terminal /\ lastOp'.op = "assembly_return"
                \/ from \in Terminal /\ to = "processing" /\ RetryAccepted
                \/ to = "failed" /\ lastOp'.op = "cancel"]_vars

\* The processor p calls the assembly collaborator in this step.
CallsAssembly(p) == procs[p].pc # "assembly" /\ procs'[p].pc = "assembly"

\* C22: the assembly collaborator is called for a deck job only when its drain
\* is complete and not every task failed, and once per job: not while a task
\* of the job is pending (the loop was left on an observed cancellation) or
\* processing, not when all tasks failed, and not when an assembly of the job
\* is in flight or has already delivered.
C22_AssemblyOncePerDrainedJob ==
    [][\A p \in ProcIds :
          CallsAssembly(p)
          => LET j == procs'[p].job
             IN /\ jobs[j].kind = "pptx"
                /\ InStatus(j, "pending") = {} /\ InStatus(j, "processing") = {}
                /\ jobs[j].failed < jobs[j].total
                /\ j \notin pptxResults
                /\ \A q \in ProcIds \ {p} :
                      ~(procs[q].job = j /\ procs[q].pc = "assembly")]_vars

\* The provider outcomes for which generateImage returns a failure.
FailingOutcomes == AllProviderOutcomes \ {"image"}

\* C23: whatever failure the Gateway call in flight returns, for a failing
\* response as for a thrown value of the provider, the task is recorded failed
\* with the Gateway's message as its error, completed_count and failed_count
\* go up by 1 each, no other task changes and the processor goes on to the
\* delay; from there it picks the next pending task of the job.
C23_GatewayFailureRecorded ==
    [][/\ \A p \in ProcIds :
            procs[p].pc = "gateway"
            => LET j == procs[p].job
                   item == procs[p].item
               IN /\ \A outcome \in FailingOutcomes, elapsed \in {0} \cup ElapsedMs :
                        LET r == generateImage(outcome)
                            s1 == RecordOutcome(St, j, item, r, elapsed)
                        IN /\ ~r.success /\ r.error # NULL
                           /\ s1.tasks[item].status = "failed"
                           /\ s1.tasks[item].error = r.error
                           /\ s1.jobs[j].completed = jobs[j].completed + 1
                           /\ s1.jobs[j].failed = jobs[j].failed + 1
                           /\ \A u \in DOMAIN tasks \ {item} : s1.tasks[u] = tasks[u]
                  /\ (/\ lastOp'.op = "gateway_return" /\ lastOp'.proc = p
                      /\ tasks'[item].status = "failed")
                     => /\ \E outcome \in FailingOutcomes :
                              tasks'[item].error = generateImage(outcome).error
                        /\ jobs'[j].completed = jobs[j].completed + 1
                        /\ jobs'[j].failed = jobs[j].failed + 1
                        /\ procs'[p].pc = "delay"
       /\ \A p \in ProcIds :
            (/\ procs[p].pc = "delay"
             /\ lastOp'.op = "delay_elapsed" /\ lastOp'.proc = p
             /\ active[procs[p].job] = "true"
             /\ getNextPending(St, procs[p].job) # 0)
            => /\ procs'[p].pc = "gateway"
               /\ procs'[p].item = getNextPending(St, procs[p].job)]_vars

\* After the first task of a job was recorded failed its processor has picked
\* the second one.
C23_Witness ==
    /\ lastOp.op = "delay_elapsed" /\ lastOp.task # 0
    /\ nRestarts = 0
    /\ procs[lastOp.proc].pc = "gateway"
    /\ \E t \in TasksOf(St, lastOp.job) :
          tasks[t].status = "failed" /\ tasks[t].error # NULL

\* C24: when the assembly call rejects, the processor sets the job failed and
\* ends normally with the job deregistered; task rows, counters and the stored
\* decks are as before.
C24_AssemblyFailureFailsJob ==
    [][\A p \in ProcIds :
          (/\ procs[p].pc = "assembly"
           /\ lastOp'.op = "assembly_return" /\ lastOp'.proc = p /\ lastOp'.code = 0)
          => LET j == procs[p].job
             IN /\ jobs'[j].status = "failed"
                /\ jobs'[j].completed = jobs[j].completed
                /\ jobs'[j].failed = jobs[j].failed
                /\ \A i \in DOMAIN jobs \ {j} : jobs'[i] = jobs[i]
                /\ tasks' = tasks
                /\ pptxResults' = pptxResults
                /\ procs'[p] = IdleProc
                /\ active'[j] = "none"]_vars

\* The assembly of a deck with a completed slide has just been rejected.
C24_Witness ==
    /\ lastOp.op = "assembly_return" /\ lastOp.code = 0
    /\ jobs[lastOp.job].status = "failed"
    /\ active[lastOp.job] = "none"
    /\ InStatus(lastOp.job, "completed") # {}
    /\ jobs[lastOp.job].failed < jobs[lastOp.job].total

\* The processor p picks the task t in this step.
Picks(p, t) ==
    /\ procs'[p].pc = "gateway" /\ procs'[p].item = t
    /\ procs[p].pc # "gateway" \/ procs'[p].calls # procs[p].calls

\* C25: getNextPendingTask(jobId) is the pending task of that job with the
\* lowest ordinal (slide number, filename), or none when the job has no
\* pending task: never a task of another job or a task that is not pending;
\* hence a task a processor picks has a lower ordinal than every task of its
\* job that is left pending.
C25_NextPendingLowestOrdinal ==
    [][/\ \A j \in DOMAIN jobs :
            LET next == getNextPending(St, j)
            IN IF InStatus(j, "pending") = {} THEN next = 0
               ELSE /\ next \in InStatus(j, "pending")
                    /\ \A u \in InStatus(j, "pending") : Ordinal(next) <= Ordinal(u)
       /\ \A p \in ProcIds : \A t \in DOMAIN tasks' :
            Picks(p, t)
            => /\ tasks'[t].job = procs'[p].job
               /\ \A u \in DOMAIN tasks' :
                     (tasks'[u].job = tasks'[t].job /\ tasks'[u].status = "pending")
                     => IF jobs'[tasks'[t].job].kind = "pptx"
                        THEN tasks'[t].slide_number < tasks'[u].slide_number
                        ELSE tasks'[t].filename < tasks'[u].filename]_vars

\* C26: in every reachable state a job's completed_at is non-null exactly when
\* its status is completed or failed.
C26_StampIffTerminal ==
    \A j \in DOMAIN jobs :
        jobs[j].completed_at # NULL <=> jobs[j].status \in Terminal

\* A retry has just taken a finished job back to processing and its stamp is
\* cleared.
C26_Witness ==
    /\ lastOp.op = "retry" /\ lastOp.code = 200 /\ lastOp.proc # 0
    /\ Cardinality(Running(lastOp.job)) = 1
    /\ jobs[lastOp.job].status = "processing"
    /\ jobs[lastOp.job].completed_at = NULL

\* C27: a missing Gateway credential is a fatal configuration error and not a
\* per-call failure: generateImage does not return an ordinary Failure result
\* for it, and the task run under it is not recorded as a failed task outcome.
C27_MissingCredentialIsFatal ==
    lastOp.op = "no_credential"
        => /\ LET result == generateImage("throw_no_key")
              IN result # Failure(result.error)
           /\ tasks[lastOp.task].status # "failed"

\* C28: whenever a job's status is completed, every task of the job is terminal
\* (none pending or processing) and completed_count equals total_count.
C28_CompletedMeansDrained ==
    \A j \in DOMAIN jobs :
        jobs[j].status = "completed"
            => /\ \A t \in TasksOf(St, j) : tasks[t].status \in Terminal
               /\ jobs[j].completed = jobs[j].total

\* C29: a processor exits its loop while tasks of its job are still pending
\* only if a cancel was requested for that job after this processor
\* registered; the cleanup of another run of the job never makes it stop early.
C29_EarlyExitOnlyOnCancel ==
    [][\A p \in ProcIds :
          (/\ LeavesLoop(p)
           /\ \E t \in TasksOf(St, procs[p].job) : tasks'[t].status = "pending")
              => procs[p].cancelled]_vars

\* The step registers a processor for job j: it holds a task of the job at the
\* Gateway under a true flag, or, with nothing pending, it is
\* already past its loop.
RegistersFor(j) ==
    /\ lastOp'.proc # 0
    /\ LET p == lastOp'.proc
       IN \/ /\ procs'[p].job = j /\ procs'[p].pc = "gateway"
             /\ active'[j] = "true"
             /\ procs'[p].item \in TasksOf(St, j)
             /\ tasks'[procs'[p].item].status = "processing"
          \/ /\ procs'[p].pc \in {"idle", "assembly"}
             /\ \A t \in TasksOf(St, j) : tasks'[t].status # "pending"

\* C30: cancelling a job that has no active processor never wedges it: the
\* entry left by the cancel is not treated as active (isProcessing is false),
\* a later run or accepted retry for the job still registers and takes up its
\* pending tasks, and a run registered while no other run of the job is alive
\* leaves tasks pending only after a further cancel.
C30_CancelWhenIdleDoesNotWedge ==
    [][\A j \in DOMAIN jobs :
          Running(j) = {}
              => /\ (lastOp'.op = "cancel" /\ lastOp'.job = j)
                        => /\ active'[j] = "false"
                           /\ ~isProcessingBatch([active |-> active'], j)
                 /\ (/\ active[j] = "false"
                     /\ lastOp'.op \in {"retry", "run"}
                     /\ lastOp'.job = j
                     /\ nRestarts' = nRestarts + 1)
                        => /\ ~isProcessingBatch(St, j)
                           /\ RegistersFor(j)
       /\ \A p \in ProcIds :
             (/\ LeavesLoop(p)
              /\ procs[p].alone
              /\ \E t \in TasksOf(St, procs[p].job) : tasks'[t].status = "pending")
                 => procs[p].cancelled]_vars

\* A job without a processor has just been cancelled while it has a failed
\* task that a retry can take.
C30_Witness ==
    /\ lastOp.op = "cancel" /\ lastOp.code = 200
    /\ Running(lastOp.job) = {}
    /\ active[lastOp.job] = "false"
    /\ nRestarts < MaxRestarts
    /\ \E t \in TasksOf(St, lastOp.job) : tasks[t].status = "failed"

====
